---- MODULE Spec2Model ----
(***************************************************************************)
(* Storefront backend: the data access layer (DatabaseStorage) and the     *)
(* HTTP routes in front of it, over a relational store.                    *)
(*                                                                         *)
(* A table is a set of rows, a row is a record.  One SQL statement is one  *)
(* atomic step; a handler that awaits several statements is several steps, *)
(* so that other requests interleave between them exactly where the event  *)
(* loop lets them.  No statement of the data access layer runs inside a    *)
(* transaction.                                                            *)
(*                                                                         *)
(* Text that the code inspects (a product name, a search string) is a      *)
(* sequence of one-character strings; money is an integer number of cents. *)
(***************************************************************************)
EXTENDS Integers, Sequences, FiniteSets, TLC

VARIABLES
    products,    \* table products
    orders,      \* table orders
    orderItems,  \* table order_items
    productSeq,  \* number of product rows ever inserted (ids, createdAt)
    clock,       \* Date.now(), in milliseconds
    req,         \* POST /api/orders requests in flight, one per slot
    rd,          \* the read request in flight (getOrder, getOrders, stats, getProducts)
    resp,        \* the HTTP response sent by the last step, NoResp if none
    placed       \* history: order id -> the items passed to the createOrder call
                 \* that inserted the order

vars == <<products, orders, orderItems, productSeq, clock, req, rd, resp, placed>>
db == <<products, orders, orderItems, productSeq, placed>>

----------------------------------------------------------------------------
(* Bounds of the model *)

MaxOrders == 2    \* order rows ever inserted
MaxClock == 1     \* clock ticks over a run
MaxProducts == 3  \* product rows ever inserted

(* Program constants *)

DefaultLimit == 50
DefaultOffset == 0

----------------------------------------------------------------------------
(* Values *)

(* JavaScript undefined.  An optional field that is undefined is a field the
   record does not have; a row that is undefined is the record Undefined. *)
Undefined == [undefined |-> TRUE]
Has(rec, f) == f \in DOMAIN rec
NoResp == [op |-> "none"]
Reqs == {1, 2}                  \* two POST /api/orders requests may be in flight

Min(a, b) == IF a < b THEN a ELSE b

RECURSIVE SumOver(_, _)
(* sum of f[x] over the finite set S *)
SumOver(S, f) ==
    IF S = {} THEN 0
    ELSE LET x == CHOOSE y \in S : TRUE IN f[x] + SumOver(S \ {x}, f)

RangeOf(s) == {s[i] : i \in DOMAIN s}

----------------------------------------------------------------------------
(* Text *)

LowerChar(c) == IF c = "A" THEN "a" ELSE IF c = "B" THEN "b" ELSE c
Lower(s) == [i \in DOMAIN s |-> LowerChar(s[i])]

RECURSIVE LikeMatch(_, _)
(* SQL LIKE: % matches any run of characters, _ any one character *)
LikeMatch(pattern, text) ==
    IF pattern = <<>> THEN text = <<>>
    ELSE IF Head(pattern) = "%"
         THEN \/ LikeMatch(Tail(pattern), text)
              \/ text # <<>> /\ LikeMatch(pattern, Tail(text))
         ELSE /\ text # <<>>
              /\ Head(pattern) = "_" \/ Head(pattern) = Head(text)
              /\ LikeMatch(Tail(pattern), Tail(text))

(* ilike(column, pattern): LIKE without regard to case *)
ilike(text, pattern) == LikeMatch(Lower(pattern), Lower(text))

(* JavaScript truthiness of an optional string field: undefined and the empty
   string are falsy.  TruthyText is the same for a field held as a sequence of
   characters. *)
Truthy(rec, f) == Has(rec, f) /\ rec[f] # ""
TruthyText(rec, f) == Has(rec, f) /\ rec[f] # <<>>

----------------------------------------------------------------------------
(* Catalog queries: DatabaseStorage.getProducts *)

(* the conditions pushed for the filters that are present, ANDed *)
whereClause(p, params) ==
    /\ TruthyText(params, "search") => ilike(p.name, <<"%">> \o params.search \o <<"%">>)
    /\ Truthy(params, "category") => p.categoryId = params.category
    /\ Truthy(params, "status") => p.status = params.status

(* ORDER BY: TRUE when row a may come before row b *)
orderBy(sort, a, b) ==
    CASE sort = "price-low" -> a.price <= b.price
      [] sort = "price-high" -> a.price >= b.price
      [] OTHER -> a.createdAt >= b.createdAt

sortOf(params) == IF Has(params, "sort") THEN params.sort ELSE "default"

(* every order in which the store may return the rows of S under ORDER BY *)
Sorted(S, sort) ==
    {s \in [1..Cardinality(S) -> S] :
        /\ \A i, j \in DOMAIN s : i # j => s[i] # s[j]
        /\ \A i, j \in DOMAIN s : i < j => orderBy(sort, s[i], s[j])}

(* LIMIT n OFFSET k of a sequence of rows *)
LimitOffset(s, n, k) == SubSeq(s, k + 1, Min(Len(s), k + n))

limitOf(params) == IF Has(params, "limit") THEN params.limit ELSE DefaultLimit
offsetOf(params) == IF Has(params, "offset") THEN params.offset ELSE DefaultOffset

(* the results the page query may return on the table tbl *)
productsQuery(tbl, params) ==
    {LimitOffset(s, limitOf(params), offsetOf(params)) :
        s \in Sorted({p \in tbl : whereClause(p, params)}, sortOf(params))}

(* as countQuery, but counting the rows of the page *)
countQueryPage(tbl, params) ==
    Min(Cardinality({p \in tbl : whereClause(p, params)}), limitOf(params))

(* the count query: the number of rows under the same conditions *)
countQuery(tbl, params) == Cardinality({p \in tbl : whereClause(p, params)})

Idle == [op |-> "idle"]

(* getProducts is called: both queries are issued, neither has run *)
GetProducts(params) ==
    /\ rd = Idle
    /\ rd' = [op |-> "getProducts", params |-> params]
    /\ resp' = NoResp
    /\ UNCHANGED <<db, clock, req>>

(* Promise.all resolves when the second of the two queries has run *)
GetProductsSettle(r) ==
    IF Has(r, "page") /\ Has(r, "total")
    THEN /\ rd' = Idle
         /\ resp' = [op |-> "getProducts", params |-> r.params,
                     products |-> r.page, total |-> r.total]
    ELSE /\ rd' = r
         /\ resp' = NoResp

GetProductsPage ==
    /\ rd.op = "getProducts" /\ ~Has(rd, "page")
    /\ \E page \in productsQuery(products, rd.params) :
           GetProductsSettle([page |-> page] @@ rd)
    /\ UNCHANGED <<db, clock, req>>

GetProductsCount ==
    /\ rd.op = "getProducts" /\ ~Has(rd, "total")
    /\ GetProductsSettle([total |-> countQuery(products, rd.params)] @@ rd)
    /\ UNCHANGED <<db, clock, req>>

----------------------------------------------------------------------------
(* Product mutations *)

(* the row an insert of `product` creates: values({...product, updatedAt: new
   Date()}); the store fills id and createdAt *)
NewProduct(product) ==
    [id |-> productSeq + 1, createdAt |-> productSeq + 1, updatedAt |-> clock] @@ product

(* insertProductSchema: a request body is its well-typed fields, plus the
   field `malformed` when some value of it fails the schema *)
ProductFields == {"name", "sku", "price", "categoryId", "status", "stock", "minStock"}
ValidProduct(body) == ~Has(body, "malformed") /\ ProductFields \subseteq DOMAIN body
ValidProductPatch(body) == ~Has(body, "malformed")

(* POST /api/products: 400 on a ZodError, else the inserted row with 201 *)
CreateProduct(product) ==
    /\ IF ValidProduct(product)
       THEN /\ productSeq < MaxProducts
            /\ products' = products \cup {NewProduct(product)}
            /\ productSeq' = productSeq + 1
            /\ resp' = [op |-> "createProduct", status |-> 201, body |-> NewProduct(product)]
       ELSE /\ UNCHANGED <<products, productSeq>>
            /\ resp' = [op |-> "createProduct", status |-> 400]
    /\ UNCHANGED <<orders, orderItems, clock, req, rd, placed>>

(* SET ...updates on one row: only the provided fields are overwritten *)
Merge(row, updates) ==
    [f \in DOMAIN row |-> IF f \in DOMAIN updates THEN updates[f] ELSE row[f]]

(* UPDATE products SET ...updates, updatedAt = now WHERE id = id *)
updateProductRows(tbl, id, updates) ==
    {IF p.id = id THEN Merge(p, [updatedAt |-> clock] @@ updates) ELSE p : p \in tbl}

(* the first returned row, undefined when the statement matched none *)
FirstRow(rows) == IF rows = {} THEN Undefined ELSE CHOOSE x \in rows : TRUE

(* as UpdateProduct, but a new name or sku is carried over to the order_items
   rows of the product *)
UpdateProductSynced(id, updates) ==
    /\ products' = IF ValidProductPatch(updates)
                   THEN updateProductRows(products, id, updates)
                   ELSE products
    /\ orderItems' =
           {IF it.productId = id /\ ValidProductPatch(updates)
            THEN [it EXCEPT !.productName = IF Has(updates, "name") THEN updates.name ELSE @,
                            !.productSku = IF Has(updates, "sku") THEN updates.sku ELSE @]
            ELSE it : it \in orderItems}
    /\ resp' = IF ValidProductPatch(updates)
               THEN [op |-> "updateProduct", id |-> id, status |-> 200,
                     body |-> FirstRow({p \in products' : p.id = id})]
               ELSE [op |-> "updateProduct", id |-> id, status |-> 400]
    /\ UNCHANGED <<orders, productSeq, clock, req, rd, placed>>

(* PUT /api/products/:id: 400 on a ZodError, else storage.updateProduct and
   res.json(product), 200 with the returned row or with nothing *)
UpdateProduct(id, updates) ==
    /\ IF ValidProductPatch(updates)
       THEN /\ products' = updateProductRows(products, id, updates)
            /\ resp' = [op |-> "updateProduct", id |-> id, status |-> 200,
                        body |-> FirstRow({p \in products' : p.id = id})]
       ELSE /\ products' = products
            /\ resp' = [op |-> "updateProduct", id |-> id, status |-> 400]
    /\ UNCHANGED <<orders, orderItems, productSeq, clock, req, rd, placed>>

(* DELETE FROM products WHERE id = id; order_items rows are not touched *)
deleteProductRows(tbl, id) == {p \in tbl : p.id # id}

(* as DeleteProduct, but the order_items rows of the product go with it *)
DeleteProductCascade(id) ==
    /\ products' = deleteProductRows(products, id)
    /\ orderItems' = {it \in orderItems : it.productId # id}
    /\ resp' = [op |-> "deleteProduct", id |-> id, status |-> 204]
    /\ UNCHANGED <<orders, productSeq, clock, req, rd, placed>>

DeleteProduct(id) ==
    /\ products' = deleteProductRows(products, id)
    /\ resp' = [op |-> "deleteProduct", id |-> id, status |-> 204]
    /\ UNCHANGED <<orders, orderItems, productSeq, clock, req, rd, placed>>

----------------------------------------------------------------------------
(* Order placement: POST /api/orders and DatabaseStorage.createOrder *)

(* insertOrderSchema.parse(order): the required fields are present *)
ValidOrder(order) == Has(order, "customerEmail") /\ Has(order, "total")

(* z.array(insertOrderItemSchema).parse(items): an array whose every element
   has its required fields; the empty array passes *)
ValidItems(items) ==
    \A i \in DOMAIN items : Has(items[i], "productId") /\ Has(items[i], "quantity")

(* `ORD-${Date.now()}` *)
OrderNumber(now) == <<"ORD-", now>>

StockOf(tbl) == [id \in {p.id : p \in tbl} |-> (CHOOSE p \in tbl : p.id = id).stock]

ReqIdle ==
    [pc |-> "idle", order |-> Undefined, items |-> <<>>, orderResult |-> Undefined,
     itemsResult |-> <<>>, todo |-> {}, errored |-> FALSE, fetched |-> <<>>,
     before |-> <<>>]            \* history: product id -> stock, as the call began

(* as PostOrders, but the items are validated after the order is inserted *)
PostOrdersLateItems(r, order, items) ==
    /\ req[r].pc = "idle"
    /\ ~ValidOrder(order) \/ ~ValidItems(items)
    /\ orders' = IF ValidOrder(order)
                 THEN orders \cup {[id |-> Cardinality(orders) + 1,
                                    orderNumber |-> OrderNumber(clock),
                                    customerEmail |-> order.customerEmail,
                                    status |-> "pending", total |-> order.total,
                                    createdAt |-> Cardinality(orders) + 1,
                                    updatedAt |-> clock]}
                 ELSE orders
    /\ resp' = [op |-> "postOrders", req |-> r, status |-> 400,
                order |-> order, items |-> items]
    /\ UNCHANGED <<products, orderItems, productSeq, placed, clock, rd, req>>

(* the route: validate both parts of the body, generate the order number and
   call createOrder, whose first statement is then in flight; a ZodError is
   answered 400 *)
PostOrders(r, order, items) ==
    /\ req[r].pc = "idle"
    /\ IF ValidOrder(order) /\ ValidItems(items)
       THEN /\ Cardinality(orders) + Cardinality({q \in Reqs : req[q].pc = "insertOrder"})
                   < MaxOrders
            /\ req' = [req EXCEPT ![r] =
                   [ReqIdle EXCEPT !.pc = "insertOrder",
                                   !.order = [orderNumber |-> OrderNumber(clock)] @@ order,
                                   !.items = items,
                                   !.before = StockOf(products)]]
            /\ resp' = NoResp
       ELSE /\ req' = req
            /\ resp' = [op |-> "postOrders", req |-> r, status |-> 400,
                        order |-> order, items |-> items]
    /\ UNCHANGED <<db, clock, rd>>

(* a statement of createOrder rejects: the error leaves createOrder and the
   route answers 500; nothing already written is undone *)
Reject(r) ==
    [op |-> "postOrders", req |-> r, status |-> 500,
     order |-> req[r].order, items |-> req[r].items]

(* the row INSERT INTO orders creates: the store fills the id and the default
   status *)
NewOrder(order) ==
    [id |-> Cardinality(orders) + 1,
     orderNumber |-> order.orderNumber,
     customerEmail |-> order.customerEmail,
     status |-> IF Has(order, "status") THEN order.status ELSE "pending",
     total |-> order.total,
     createdAt |-> Cardinality(orders) + 1,     \* the rank of the insertion time
     updatedAt |-> clock]

(* the unique constraint on orders.orderNumber *)
orderNumberTaken(tbl, orderNumber) == \E o \in tbl : o.orderNumber = orderNumber

(* as InsertOrder, but into a table that lets an order number repeat *)
InsertOrderUnchecked(r, ok) ==
    /\ req[r].pc = "insertOrder"
    /\ IF ok
       THEN /\ orders' = orders \cup {NewOrder(req[r].order)}
            /\ req' = [req EXCEPT ![r].pc = "insertItems",
                                  ![r].orderResult = NewOrder(req[r].order)]
            /\ placed' = [id \in DOMAIN placed \cup {NewOrder(req[r].order).id} |->
                              IF id \in DOMAIN placed THEN placed[id] ELSE req[r].items]
            /\ resp' = NoResp
       ELSE /\ orders' = orders
            /\ req' = [req EXCEPT ![r] = ReqIdle]
            /\ placed' = placed
            /\ resp' = Reject(r)
    /\ UNCHANGED <<products, orderItems, productSeq, clock, rd>>

(* db.insert(orders).values(order).returning() *)
InsertOrder(r, ok) ==
    /\ req[r].pc = "insertOrder"
    /\ IF ok /\ ~orderNumberTaken(orders, req[r].order.orderNumber)
       THEN /\ orders' = orders \cup {NewOrder(req[r].order)}
            /\ req' = [req EXCEPT ![r].pc = "insertItems",
                                  ![r].orderResult = NewOrder(req[r].order)]
            /\ placed' = [id \in DOMAIN placed \cup {NewOrder(req[r].order).id} |->
                              IF id \in DOMAIN placed THEN placed[id] ELSE req[r].items]
            /\ resp' = NoResp
       ELSE /\ orders' = orders
            /\ req' = [req EXCEPT ![r] = ReqIdle]
            /\ placed' = placed
            /\ resp' = Reject(r)
    /\ UNCHANGED <<products, orderItems, productSeq, clock, rd>>

(* as orderItemsWithOrderId, but only the first item is tagged with the order *)
orderItemsFirstTagged(items, orderId) ==
    [i \in DOMAIN items |->
        [id |-> Cardinality(orderItems) + i,
         orderId |-> IF i = 1 THEN orderId ELSE 0,
         productId |-> items[i].productId,
         productName |-> items[i].productName,
         productSku |-> items[i].productSku,
         price |-> items[i].price,
         quantity |-> items[i].quantity,
         total |-> items[i].total]]

(* items.map(item => ({...item, orderId: orderResult.id})), then the rows the
   batch insert creates, in the order of the items *)
orderItemsWithOrderId(items, orderId) ==
    [i \in DOMAIN items |->
        [id |-> Cardinality(orderItems) + i,
         orderId |-> orderId,
         productId |-> items[i].productId,
         productName |-> items[i].productName,
         productSku |-> items[i].productSku,
         price |-> items[i].price,
         quantity |-> items[i].quantity,
         total |-> items[i].total]]

(* as InsertItems, but a failed insert removes the order row again *)
InsertItemsCompensating(r, ok) ==
    /\ req[r].pc = "insertItems"
    /\ LET rows == orderItemsWithOrderId(req[r].items, req[r].orderResult.id) IN
       IF ok /\ req[r].items # <<>>
       THEN /\ orderItems' = orderItems \cup RangeOf(rows)
            /\ orders' = orders
            /\ req' = [req EXCEPT ![r].pc = "stock",
                                  ![r].itemsResult = rows,
                                  ![r].todo = DOMAIN rows]
            /\ resp' = NoResp
       ELSE /\ orderItems' = orderItems
            /\ orders' = {o \in orders : o.id # req[r].orderResult.id}
            /\ req' = [req EXCEPT ![r] = ReqIdle]
            /\ resp' = Reject(r)
    /\ UNCHANGED <<products, productSeq, clock, rd, placed>>

(* db.insert(orderItems).values(rows).returning(); values() throws on an
   empty array.  On success every stock update is issued at once. *)
InsertItems(r, ok) ==
    /\ req[r].pc = "insertItems"
    /\ LET rows == orderItemsWithOrderId(req[r].items, req[r].orderResult.id) IN
       IF ok /\ req[r].items # <<>>
       THEN /\ orderItems' = orderItems \cup RangeOf(rows)
            /\ req' = [req EXCEPT ![r].pc = "stock",
                                  ![r].itemsResult = rows,
                                  ![r].todo = DOMAIN rows]
            /\ resp' = NoResp
       ELSE /\ orderItems' = orderItems
            /\ req' = [req EXCEPT ![r] = ReqIdle]
            /\ resp' = Reject(r)
    /\ UNCHANGED <<products, orders, productSeq, clock, rd, placed>>

(* as decrementStock, but never below zero *)
decrementStockFloored(tbl, productId, quantity) ==
    {IF p.id = productId
     THEN [p EXCEPT !.stock = IF p.stock >= quantity THEN p.stock - quantity ELSE 0,
                    !.updatedAt = clock]
     ELSE p : p \in tbl}

(* UPDATE products SET stock = stock - quantity, updatedAt = now
   WHERE id = productId *)
decrementStock(tbl, productId, quantity) ==
    {IF p.id = productId
     THEN [p EXCEPT !.stock = p.stock - quantity, !.updatedAt = clock]
     ELSE p : p \in tbl}

(* as UpdateStock, but the new stock is computed by the server from the stock
   it read when the call began *)
UpdateStockStale(r, i, ok) ==
    /\ req[r].pc = "stock"
    /\ i \in req[r].todo
    /\ products' = IF ok
                   THEN {IF p.id = req[r].items[i].productId
                         THEN [p EXCEPT !.stock = req[r].before[p.id] - req[r].items[i].quantity,
                                        !.updatedAt = clock]
                         ELSE p : p \in products}
                   ELSE products
    /\ LET errored == req[r].errored \/ ~ok
           todo == req[r].todo \ {i}
           me == IF todo # {}
                 THEN [req[r] EXCEPT !.todo = todo, !.errored = errored]
                 ELSE IF errored THEN ReqIdle
                 ELSE [req[r] EXCEPT !.pc = "refetch", !.todo = DOMAIN req[r].items]
       IN /\ req' = [req EXCEPT ![r] = me]
          /\ resp' = IF ~ok /\ ~req[r].errored THEN Reject(r) ELSE NoResp
    /\ UNCHANGED <<orders, orderItems, productSeq, clock, rd, placed>>

(* one of the stock updates of Promise.all runs.  The first rejection rejects
   createOrder; the updates already issued still run. *)
UpdateStock(r, i, ok) ==
    /\ req[r].pc = "stock"
    /\ i \in req[r].todo
    /\ products' = IF ok
                   THEN decrementStock(products, req[r].items[i].productId,
                                       req[r].items[i].quantity)
                   ELSE products
    /\ LET errored == req[r].errored \/ ~ok
           todo == req[r].todo \ {i}
           me == IF todo # {}
                 THEN [req[r] EXCEPT !.todo = todo, !.errored = errored]
                 ELSE IF errored THEN ReqIdle
                 ELSE [req[r] EXCEPT !.pc = "refetch", !.todo = DOMAIN req[r].items]
       IN /\ req' = [req EXCEPT ![r] = me]
          /\ resp' = IF ~ok /\ ~req[r].errored THEN Reject(r) ELSE NoResp
    /\ UNCHANGED <<orders, orderItems, productSeq, clock, rd, placed>>

(* as productView, but with no view for a product that is gone *)
productViewNull(item, found) ==
    IF found # {} THEN CHOOSE p \in found : TRUE ELSE Undefined

(* product || {id, name, sku}: the product row when the join or the select
   found one, else the view made of the item's own columns *)
productView(item, found) ==
    IF found # {}
    THEN CHOOSE p \in found : TRUE
    ELSE [id |-> item.productId, name |-> item.productName, sku |-> item.productSku]

withProduct(item, tbl) ==
    [product |-> productView(item, {p \in tbl : p.id = item.productId})] @@ item

(* one of the product selects of the second Promise.all runs; after the last,
   createOrder returns and the route answers 201 *)
RefetchProduct(r, i) ==
    /\ req[r].pc = "refetch"
    /\ i \in req[r].todo
    /\ LET fetched == [j \in DOMAIN req[r].fetched \cup {i} |->
                          IF j = i THEN withProduct(req[r].itemsResult[i], products)
                          ELSE req[r].fetched[j]]
           todo == req[r].todo \ {i}
       IN IF todo # {}
          THEN /\ req' = [req EXCEPT ![r].todo = todo, ![r].fetched = fetched]
               /\ resp' = NoResp
          ELSE /\ req' = [req EXCEPT ![r] = ReqIdle]
               /\ resp' = [op |-> "postOrders", req |-> r, status |-> 201,
                           order |-> req[r].order, items |-> req[r].items,
                           body |-> [items |-> fetched] @@ req[r].orderResult,
                           before |-> req[r].before]
    /\ UNCHANGED <<db, clock, rd>>

(* time passes *)
Tick ==
    /\ clock < MaxClock
    /\ clock' = clock + 1
    /\ resp' = NoResp
    /\ UNCHANGED <<db, req, rd>>

----------------------------------------------------------------------------
(* Order status: PUT /api/orders/:id/status and updateOrderStatus *)

(* as updateOrderStatus, but only a pending order may change its status *)
updateOrderStatusForward(tbl, id, status) ==
    {IF o.id = id /\ o.status = "pending"
     THEN [o EXCEPT !.status = status, !.updatedAt = clock]
     ELSE o : o \in tbl}

(* UPDATE orders SET status = status, updatedAt = now WHERE id = id
   RETURNING the rows *)
updateOrderStatus(tbl, id, status) ==
    {IF o.id = id THEN [o EXCEPT !.status = status, !.updatedAt = clock] ELSE o : o \in tbl}

(* the route answers 400 for a falsy status, else the row, or nothing when
   the id matched no order, with 200 *)
PutOrderStatus(id, status) ==
    /\ IF status = ""
       THEN /\ orders' = orders
            /\ resp' = [op |-> "putOrderStatus", id |-> id, status |-> 400]
       ELSE /\ orders' = updateOrderStatus(orders, id, status)
            /\ resp' = [op |-> "putOrderStatus", id |-> id, status |-> 200,
                        body |-> FirstRow({o \in orders' : o.id = id})]
    /\ UNCHANGED <<products, orderItems, productSeq, clock, req, rd, placed>>

----------------------------------------------------------------------------
(* Order reads: getOrder, getOrderByNumber, getOrders *)

(* SELECT the item columns and the product FROM order_items LEFT JOIN products
   WHERE order_id = orderId, then items.map over the rows.  The rows come in
   no stated order: a set. *)
itemsOf(orderId) ==
    {withProduct(item, products) : item \in {x \in orderItems : x.orderId = orderId}}

(* as GetOrder, but the route passes the result on without testing it *)
GetOrderUntested(id) ==
    /\ rd = Idle
    /\ LET order == FirstRow({o \in orders : o.id = id}) IN
       IF order = Undefined
       THEN /\ rd' = Idle
            /\ resp' = [op |-> "getOrder", key |-> id, status |-> 200, body |-> Undefined]
       ELSE /\ rd' = [op |-> "getOrder", key |-> id, order |-> order]
            /\ resp' = NoResp
    /\ UNCHANGED <<db, clock, req>>

(* GET /api/orders/:id: the first statement of getOrder; 404 when no row *)
GetOrder(id) ==
    /\ rd = Idle
    /\ LET order == FirstRow({o \in orders : o.id = id}) IN
       IF order = Undefined
       THEN /\ rd' = Idle
            /\ resp' = [op |-> "getOrder", key |-> id, status |-> 404, body |-> Undefined]
       ELSE /\ rd' = [op |-> "getOrder", key |-> id, order |-> order]
            /\ resp' = NoResp
    /\ UNCHANGED <<db, clock, req>>

(* the first statement of getOrderByNumber; undefined when no row *)
GetOrderByNumber(orderNumber) ==
    /\ rd = Idle
    /\ LET order == FirstRow({o \in orders : o.orderNumber = orderNumber}) IN
       IF order = Undefined
       THEN /\ rd' = Idle
            /\ resp' = [op |-> "getOrderByNumber", key |-> orderNumber, body |-> Undefined]
       ELSE /\ rd' = [op |-> "getOrderByNumber", key |-> orderNumber, order |-> order]
            /\ resp' = NoResp
    /\ UNCHANGED <<db, clock, req>>

(* the second statement of getOrder and of getOrderByNumber: the items *)
GetOrderItems ==
    /\ rd.op \in {"getOrder", "getOrderByNumber"}
    /\ rd' = Idle
    /\ LET result == [op |-> rd.op, key |-> rd.key,
                       body |-> [items |-> itemsOf(rd.order.id)] @@ rd.order]
       IN resp' = IF rd.op = "getOrder" THEN [status |-> 200] @@ result ELSE result
    /\ UNCHANGED <<db, clock, req>>

ordersWhere(o, params) == Truthy(params, "status") => o.status = params.status

(* the results the page query of getOrders may return: newest first *)
ordersQuery(tbl, params) ==
    {LimitOffset(s, limitOf(params), offsetOf(params)) :
        s \in Sorted({o \in tbl : ordersWhere(o, params)}, "newest")}

GetOrders(params) ==
    /\ rd = Idle
    /\ rd' = [op |-> "getOrders", params |-> params, todo |-> {}, items |-> <<>>]
    /\ resp' = NoResp
    /\ UNCHANGED <<db, clock, req>>

GetOrdersRespond(r) ==
    [op |-> "getOrders", params |-> r.params, total |-> r.total,
     orders |-> [i \in DOMAIN r.page |-> [items |-> r.items[i]] @@ r.page[i]]]

(* the first Promise.all resolves when both queries have run; the item joins
   of the page's orders are then issued at once *)
GetOrdersSettle(r) ==
    IF ~Has(r, "page") \/ ~Has(r, "total")
    THEN rd' = r /\ resp' = NoResp
    ELSE IF r.page = <<>>
    THEN rd' = Idle /\ resp' = GetOrdersRespond(r)
    ELSE rd' = [r EXCEPT !.todo = DOMAIN r.page] /\ resp' = NoResp

GetOrdersPage ==
    /\ rd.op = "getOrders" /\ ~Has(rd, "page")
    /\ \E page \in ordersQuery(orders, rd.params) :
           GetOrdersSettle([page |-> page] @@ rd)
    /\ UNCHANGED <<db, clock, req>>

GetOrdersCount ==
    /\ rd.op = "getOrders" /\ ~Has(rd, "total")
    /\ GetOrdersSettle([total |-> Cardinality({o \in orders : ordersWhere(o, rd.params)})]
                           @@ rd)
    /\ UNCHANGED <<db, clock, req>>

GetOrdersItems(i) ==
    /\ rd.op = "getOrders" /\ i \in rd.todo
    /\ LET r == [rd EXCEPT !.todo = @ \ {i},
                           !.items = [j \in DOMAIN rd.items \cup {i} |->
                                         IF j = i THEN itemsOf(rd.page[i].id)
                                         ELSE rd.items[j]]]
       IN IF r.todo = {}
          THEN rd' = Idle /\ resp' = GetOrdersRespond(r)
          ELSE rd' = r /\ resp' = NoResp
    /\ UNCHANGED <<db, clock, req>>

----------------------------------------------------------------------------
(* Dashboard statistics: getDashboardStats, three statements in turn *)

(* as revenueQuery, but over the orders of every status *)
revenueQueryAll(tbl) ==
    [total |-> SumOver(tbl, [o \in tbl |-> o.total]), count |-> Cardinality(tbl)]

(* coalesce(sum(cast(total as decimal)), 0) and the row count, over the orders
   WHERE status = 'completed' *)
revenueQuery(tbl) ==
    LET rows == {o \in tbl : o.status = "completed"} IN
    [total |-> SumOver(rows, [o \in rows |-> o.total]), count |-> Cardinality(rows)]

GetStatsRevenue ==
    /\ rd = Idle
    /\ rd' = [op |-> "stats", pc |-> "customers", revenueResult |-> revenueQuery(orders)]
    /\ resp' = NoResp
    /\ UNCHANGED <<db, clock, req>>

GetStatsCustomers ==
    /\ rd.op = "stats" /\ rd.pc = "customers"
    /\ rd' = [op |-> "stats", pc |-> "lowStock", revenueResult |-> rd.revenueResult,
              customers |-> Cardinality({o.customerEmail : o \in orders})]
    /\ resp' = NoResp
    /\ UNCHANGED <<db, clock, req>>

GetStatsLowStock ==
    /\ rd.op = "stats" /\ rd.pc = "lowStock"
    /\ rd' = Idle
    /\ resp' = [op |-> "stats", status |-> 200,
                revenue |-> rd.revenueResult.total,
                orders |-> rd.revenueResult.count,
                customers |-> rd.customers,
                lowStock |-> Cardinality({p \in products : p.stock <= p.minStock})]
    /\ UNCHANGED <<db, clock, req>>

----------------------------------------------------------------------------
(* The store after seeding, and the inputs of the requests *)

SeedProducts ==
    {[id |-> 1, name |-> <<"a", "b">>, sku |-> "S1", price |-> 10, categoryId |-> "cat-1",
      status |-> "active", stock |-> 2, minStock |-> 1, createdAt |-> 1, updatedAt |-> 0],
     [id |-> 2, name |-> <<"B">>, sku |-> "S2", price |-> 20, categoryId |-> "cat-2",
      status |-> "active", stock |-> 5, minStock |-> 5, createdAt |-> 2, updatedAt |-> 0]}

Init ==
    /\ products = SeedProducts
    /\ orders = {}
    /\ orderItems = {}
    /\ productSeq = Cardinality(SeedProducts)
    /\ clock = 0
    /\ req = [r \in Reqs |-> ReqIdle]
    /\ rd = Idle
    /\ resp = NoResp
    /\ placed = <<>>

Item(productId, name, sku, price, quantity, total) ==
    [productId |-> productId, productName |-> name, productSku |-> sku,
     price |-> price, quantity |-> quantity, total |-> total]

(* r without its field f *)
Without(r, f) == [g \in DOMAIN r \ {f} |-> r[g]]

ItemOne == Item(1, <<"a", "b">>, "S1", 10, 1, 10)
ItemFive == Item(1, <<"a", "b">>, "S1", 10, 5, 50)
ItemTwo == Item(2, <<"B">>, "S2", 20, 1, 25)
ItemBad == Without(ItemTwo, "quantity")

OrderBody(email, total) == [customerEmail |-> email, total |-> total]
Completed(order) == [status |-> "completed"] @@ order

(* request bodies of POST /api/orders *)
Payloads ==
    {[order |-> OrderBody("a@b.com", 50), items |-> <<ItemFive>>],
     [order |-> Completed(OrderBody("c@d.com", 35)), items |-> <<ItemOne, ItemTwo>>],
     [order |-> Completed(OrderBody("a@b.com", 20)), items |-> <<ItemOne, ItemOne>>],
     [order |-> OrderBody("a@b.com", 0), items |-> <<>>],
     [order |-> Without(OrderBody("a@b.com", 50), "customerEmail"), items |-> <<ItemFive>>],
     [order |-> OrderBody("a@b.com", 10), items |-> <<ItemOne, ItemBad>>]}

(* bodies of POST /api/orders in the specifications about stored orders *)
HistoryPayloads ==
    {[order |-> OrderBody("a@b.com", 50), items |-> <<ItemFive>>],
     [order |-> Completed(OrderBody("c@d.com", 35)), items |-> <<ItemOne, ItemTwo>>]}

NoOrder == MaxOrders + 1                 \* an :id no order has
NoProduct == MaxProducts + 1             \* an :id no product has
OrderKeys == {1, NoOrder}
OrderNumbers == {OrderNumber(0), OrderNumber(MaxClock + 1)}
StatusInputs == {"pending", "completed", "banana", ""}
Rename == [name |-> <<"A">>, sku |-> "S9"]

(* the free slot a new request takes *)
FreeSlot(r) == req[r].pc = "idle" /\ \A q \in Reqs : q < r => req[q].pc # "idle"

(* POST /api/orders, one request at a time, with bodies from PL; OKS holds the
   outcomes a statement may have: TRUE done, FALSE rejected by the store *)
Place(PL, OKS) ==
    \/ \E p \in PL : FreeSlot(1) /\ PostOrders(1, p.order, p.items)
    \/ \E r \in Reqs, ok \in OKS : InsertOrder(r, ok)
    \/ \E r \in Reqs, ok \in OKS : InsertItems(r, ok)
    \/ \E r \in Reqs, i \in 1..2, ok \in OKS : UpdateStock(r, i, ok)
    \/ \E r \in Reqs, i \in 1..2 : RefetchProduct(r, i)
    \/ Tick

ReadOrder ==
    \/ \E id \in OrderKeys : GetOrder(id)
    \/ \E n \in OrderNumbers : GetOrderByNumber(n)
    \/ GetOrderItems

(* Order placement, with reads of single orders *)
Next ==
    \/ Place(Payloads, BOOLEAN)
    \/ ReadOrder

Spec == Init /\ [][Next]_vars

----------------------------------------------------------------------------
(* Properties of order placement, under Spec *)

RECURSIVE QuantityFor(_, _)
(* the quantities of the items of a request that name the product id, summed *)
QuantityFor(items, id) ==
    IF items = <<>> THEN 0
    ELSE (IF Head(items).productId = id THEN Head(items).quantity ELSE 0)
         + QuantityFor(Tail(items), id)

Created == resp.op = "postOrders" /\ resp.status = 201

(* C1: when createOrder has completed and nothing else wrote the products,
   every product's stock is its stock as the call began minus the quantities
   of the call's items that name it, with no floor at zero and no sufficiency
   check, and the order is stored. *)
StockDecrementedUnchecked ==
    Created =>
        /\ \A p \in products :
               p.stock = resp.before[p.id] - QuantityFor(resp.items, p.id)
        /\ \E o \in orders : o.id = resp.body.id

(* an order of 5 against a stock of 2 completed and left -3 *)
StockDrivenNegative ==
    /\ Created
    /\ \E p \in products :
           /\ resp.before[p.id] = 2
           /\ QuantityFor(resp.items, p.id) = 5
           /\ p.stock = 0 - 3

(* C2: a createOrder call that completes with N items has added one order row
   and N order_items rows, each carrying the new order's id and the fields of
   its item, and returns the order with those N items. *)
OneOrderWithItsItems ==
    Created =>
        LET id == resp.body.id
            rows == {x \in orderItems : x.orderId = id}
            N == Len(resp.items)
        IN /\ Cardinality({o \in orders : o.id = id}) = 1
           /\ Cardinality(rows) = N
           /\ DOMAIN resp.body.items = 1..N
           /\ \A i \in 1..N :
                  LET got == resp.body.items[i] IN
                  /\ got.orderId = id
                  /\ Without(got, "product") \in rows
                  /\ \A f \in DOMAIN resp.items[i] : got[f] = resp.items[i][f]
           /\ \A i, j \in 1..N : i # j => resp.body.items[i].id # resp.body.items[j].id

(* an order of two items was created as the second order of the store *)
TwoItemsCreated == Created /\ Len(resp.items) = 2 /\ Cardinality(orders) = 2

(* C3: an order row is in the store only together with all the items passed
   to the createOrder call that inserted it, and a read of the order shows
   them all. *)
OrderStoredWithAllItems ==
    /\ \A o \in orders :
           Cardinality({x \in orderItems : x.orderId = o.id}) = Len(placed[o.id])
    /\ resp.op \in {"getOrder", "getOrderByNumber"} /\ resp.body # Undefined =>
           Cardinality(resp.body.items) = Len(placed[resp.body.id])

(* C9: a POST /api/orders whose order or items fail validation is answered 400
   and writes nothing: no table changes and no statement is issued. *)
InvalidOrderWritesNothing ==
    [][\A p \in Payloads :
           (PostOrders(1, p.order, p.items) /\ ~(ValidOrder(p.order) /\ ValidItems(p.items)))
               => /\ resp'.op = "postOrders" /\ resp'.status = 400
                  /\ UNCHANGED <<products, orders, orderItems>>
                  /\ req' = req]_vars

(* a request with a valid order and an invalid item was answered 400 *)
InvalidItemsRejected ==
    /\ resp.op = "postOrders" /\ resp.status = 400
    /\ ValidOrder(resp.order) /\ ~ValidItems(resp.items)

(* C11: every stored order item has a total equal to its price multiplied by
   its quantity. *)
ItemTotalIsPriceTimesQuantity ==
    \A it \in orderItems : it.total = it.price * it.quantity

(* C12: getOrder and getOrderByNumber, for an id or a number no stored order
   has, return undefined in their first statement: no item statement follows,
   no table changes, and GET /api/orders/:id answers 404. *)
AbsentOrderIsUndefined ==
    [][/\ \A id \in OrderKeys :
              (GetOrder(id) /\ \A o \in orders : o.id # id) =>
                  /\ resp'.op = "getOrder" /\ resp'.status = 404
                  /\ resp'.body = Undefined
                  /\ rd' = Idle
                  /\ UNCHANGED <<products, orders, orderItems>>
       /\ \A n \in OrderNumbers :
              (GetOrderByNumber(n) /\ \A o \in orders : o.orderNumber # n) =>
                  /\ resp'.op = "getOrderByNumber"
                  /\ resp'.body = Undefined
                  /\ rd' = Idle
                  /\ UNCHANGED <<products, orders, orderItems>>]_vars

(* GET /api/orders/:id answered 404 for an id no order has, in a store that
   holds orders *)
AbsentOrderAnswered404 ==
    /\ resp.op = "getOrder" /\ resp.status = 404
    /\ orders # {}
    /\ \A o \in orders : o.id # resp.key

(* C14: a failed insert of the items leaves the inserted order row stored
   with no items and no stock changed, a failed stock update leaves the order
   and all its items stored; the first failure is answered 500, and the
   request issues no further statement. *)
FailureNotRolledBack ==
    [][\A r \in Reqs :
           /\ (InsertItems(r, FALSE) \/ (InsertItems(r, TRUE) /\ req[r].items = <<>>)) =>
                  /\ resp'.op = "postOrders" /\ resp'.status = 500
                  /\ req[r].orderResult \in orders'
                  /\ \A it \in orderItems' : it.orderId # req[r].orderResult.id
                  /\ products' = products
                  /\ req'[r] = ReqIdle
           /\ \A i \in DOMAIN req[r].items :
                  UpdateStock(r, i, FALSE) =>
                      /\ req[r].orderResult \in orders'
                      /\ RangeOf(req[r].itemsResult) \subseteq orderItems'
                      /\ ~req[r].errored => resp'.op = "postOrders" /\ resp'.status = 500
                      /\ req'[r].pc \in {"stock", "idle"}
                      /\ req'[r].pc = "stock" => req'[r].errored]_vars

(* a request with items was answered 500 and its order row is stored without
   any item, with every stock as seeded *)
OrderLeftWithoutItems ==
    /\ resp.op = "postOrders" /\ resp.status = 500
    /\ resp.items # <<>>
    /\ Cardinality(orders) = 1
    /\ \E o \in orders :
           /\ o.orderNumber = resp.order.orderNumber
           /\ \A it \in orderItems : it.orderId # o.id
    /\ StockOf(products) = StockOf(SeedProducts)

----------------------------------------------------------------------------
(* Every writer of the store: placement, product edits and deletion, status *)
NextWrites ==
    \/ Place(HistoryPayloads, {TRUE})
    \/ \E id \in {1, NoProduct} : UpdateProduct(id, Rename)
    \/ \E id \in {1, NoProduct} : DeleteProduct(id)
    \/ \E id \in OrderKeys, s \in StatusInputs : PutOrderStatus(id, s)

SpecWrites == Init /\ [][NextWrites]_vars

(* the columns an order item captures when its order is placed *)
Captured == {"orderId", "productId", "productName", "productSku", "price", "quantity", "total"}

(* C4: in every step of any writer (createOrder, updateProduct, deleteProduct,
   updateOrderStatus) every stored order item is still stored with the
   productName, productSku, price, quantity and total it had, so it keeps the
   values it was created with whatever happens to its product. *)
OrderItemsImmutable ==
    [][\A it \in orderItems :
           \E n \in orderItems' : n.id = it.id /\ \A f \in Captured : n[f] = it[f]]_vars

(* product 1 was renamed while an order item still carries its old name *)
RenamedUnderItem ==
    /\ resp.op = "updateProduct" /\ resp.status = 200 /\ resp.body # Undefined
    /\ \E it \in orderItems :
           /\ it.productId = resp.body.id
           /\ it.productName # resp.body.name
           /\ it.productSku # resp.body.sku

(* C15: no step removes an order or an order item, and deleteProduct removes
   the product row with the given id and nothing else: every other product,
   every order and every order item stay as they were. *)
OrdersAndItemsOnlyGrow ==
    [][/\ \A o \in orders : \E n \in orders' : n.id = o.id
       /\ orderItems \subseteq orderItems'
       /\ \A id \in {1, NoProduct} :
              DeleteProduct(id) =>
                  /\ products' = {p \in products : p.id # id}
                  /\ UNCHANGED <<orders, orderItems>>]_vars

(* product 1 was deleted under an order item that references it; the other
   product is still stored *)
ProductDeletedUnderItem ==
    /\ resp.op = "deleteProduct"
    /\ \A p \in products : p.id # resp.id
    /\ \E it \in orderItems : it.productId = resp.id
    /\ products # {}

(* Reads of orders whose products are deleted *)
NextHistory ==
    \/ Place(HistoryPayloads, {TRUE})
    \/ DeleteProduct(1)
    \/ ReadOrder
    \/ GetOrders([limit |-> MaxOrders])
    \/ GetOrdersPage
    \/ GetOrdersCount
    \/ \E i \in 1..MaxOrders : GetOrdersItems(i)

SpecHistory == Init /\ [][NextHistory]_vars

(* what the reads are to show as the product of a stored item: the current
   product row, or the view made of the item's own columns once it is gone *)
ExpectedItems(orderId) ==
    {[product |-> IF \E p \in products : p.id = it.productId
                  THEN CHOOSE p \in products : p.id = it.productId
                  ELSE [id |-> it.productId, name |-> it.productName,
                        sku |-> it.productSku]] @@ it :
        it \in {x \in orderItems : x.orderId = orderId}}

(* the items the i-th join of getOrders has just returned *)
JoinedItems(i) == IF rd'.op = "getOrders" THEN rd'.items[i] ELSE resp'.orders[i].items

(* C5: the item reads of getOrder, getOrderByNumber and getOrders succeed and
   return every item of the order, an item whose product was deleted with the
   view {id, name, sku} of its own productId, productName and productSku, and
   an item whose product exists with the current product row. *)
DeletedProductShownFromItem ==
    [][/\ GetOrderItems =>
              /\ resp'.body.items = ExpectedItems(rd.order.id)
              /\ rd.op = "getOrder" => resp'.status = 200
       /\ \A i \in 1..MaxOrders :
              GetOrdersItems(i) => JoinedItems(i) = ExpectedItems(rd.page[i].id)]_vars

(* getOrder answered an order of two items after product 1 was deleted: one
   item with the synthetic view, the other with its product row *)
SyntheticViewReturned ==
    /\ resp.op = "getOrder" /\ resp.status = 200
    /\ \A p \in products : p.id # 1
    /\ \E v \in resp.body.items :
           v.productId = 1 /\ v.product = [id |-> 1, name |-> <<"a", "b">>, sku |-> "S1"]
    /\ \E v \in resp.body.items : v.productId = 2 /\ v.product \in products

(* Status updates and reads of single orders *)
NextStatus ==
    \/ Place(HistoryPayloads, {TRUE})
    \/ \E id \in OrderKeys, s \in StatusInputs : PutOrderStatus(id, s)
    \/ \E id \in OrderKeys : GetOrder(id)
    \/ GetOrderItems

SpecStatus == Init /\ [][NextStatus]_vars

(* C6: a status update of an existing order stores the given status whatever
   the string and the current status, leaves every other order, every order
   item and every product as they were, and getOrder returns the status it
   reads from the row. *)
StatusOverwritten ==
    [][/\ \A id \in OrderKeys, s \in StatusInputs \ {""} :
              (PutOrderStatus(id, s) /\ \E o \in orders : o.id = id) =>
                  /\ \E o \in orders' : o.id = id /\ o.status = s
                  /\ Cardinality(orders') = Cardinality(orders)
                  /\ \A o \in orders : o.id # id => o \in orders'
                  /\ UNCHANGED <<orderItems, products>>
                  /\ resp'.status = 200 /\ resp'.body.status = s
       /\ \A o \in orders, s \in StatusInputs :
              \E n \in updateOrderStatus(orders, o.id, s) : n.id = o.id /\ n.status = s
       /\ \A id \in OrderKeys :
              (GetOrder(id) /\ \E o \in orders : o.id = id) =>
                  \E o \in orders : o.id = id /\ rd'.order.status = o.status
       /\ GetOrderItems => resp'.body.status = rd.order.status]_vars

(* getOrder returned the status "banana" *)
BananaReturned ==
    /\ resp.op = "getOrder" /\ resp.status = 200
    /\ resp.body.status = "banana"
    /\ \E o \in orders : o.id = resp.body.id /\ o.status = "banana"

(* Status updates and the dashboard *)
NextStats ==
    \/ Place(HistoryPayloads, {TRUE})
    \/ \E id \in OrderKeys, s \in StatusInputs : PutOrderStatus(id, s)
    \/ GetStatsRevenue
    \/ GetStatsCustomers
    \/ GetStatsLowStock

SpecStats == Init /\ [][NextStats]_vars

RECURSIVE CompletedTotal(_)
(* the totals of the orders 1..n whose status is "completed", summed *)
CompletedTotal(n) ==
    IF n = 0 THEN 0
    ELSE CompletedTotal(n - 1)
         + (IF \E o \in orders : o.id = n /\ o.status = "completed"
            THEN (CHOOSE o \in orders : o.id = n).total
            ELSE 0)

(* C7: the revenue query of getDashboardStats yields the sum of the totals of
   exactly the orders whose status is "completed", 0 when there are none, and
   the answer carries that value as revenue. *)
RevenueOfCompleted ==
    [][/\ GetStatsRevenue => rd'.revenueResult.total = CompletedTotal(Cardinality(orders))
       /\ GetStatsCustomers => rd'.revenueResult = rd.revenueResult
       /\ GetStatsLowStock => resp'.revenue = rd.revenueResult.total]_vars

(* the revenue query ran on two orders, one moved out of "completed" and one
   never completed, and yielded 0 *)
RevenueSkipsOthers ==
    /\ rd.op = "stats" /\ rd.pc = "customers"
    /\ rd.revenueResult.total = 0
    /\ \E o \in orders : o.total = 35 /\ o.status = "pending"
    /\ \E o \in orders : o.total = 50 /\ o.status = "pending"

(* Requests of POST /api/orders handled concurrently, every statement done *)
ConcurrentPayloads ==
    {[order |-> OrderBody("a@b.com", 50), items |-> <<ItemFive>>],
     [order |-> OrderBody("c@d.com", 20), items |-> <<ItemOne, ItemOne>>]}

NextConcurrent ==
    \/ \E r \in Reqs, p \in ConcurrentPayloads :
           FreeSlot(r) /\ PostOrders(r, p.order, p.items)
    \/ \E r \in Reqs : InsertOrder(r, TRUE)
    \/ \E r \in Reqs : InsertItems(r, TRUE)
    \/ \E r \in Reqs, i \in 1..2 : UpdateStock(r, i, TRUE)
    \/ \E r \in Reqs, i \in 1..2 : RefetchProduct(r, i)
    \/ Tick

SpecConcurrent == Init /\ [][NextConcurrent]_vars

(* the quantities of the stored order items that name the product id, summed *)
OrderedQuantity(id) ==
    LET S == {it \in orderItems : it.productId = id}
    IN SumOver(S, [it \in S |-> it.quantity])

SeedStock(id) == (CHOOSE p \in SeedProducts : p.id = id).stock

(* C13: once every createOrder call has completed, however the calls and the
   stock updates of one call interleaved, each product's stock is its seeded
   stock minus the quantities of all the stored items that name it: no
   decrement is lost, and nothing keeps the stock from going negative. *)
NoDecrementLost ==
    (\A r \in Reqs : req[r].pc = "idle") =>
        \A p \in products : p.stock = SeedStock(p.id) - OrderedQuantity(p.id)

(* a call that began at stock 2 completed at a negative stock that its own
   items do not account for: another call decremented the product meanwhile *)
OversoldConcurrently ==
    /\ Created
    /\ \A r \in Reqs : req[r].pc = "idle"
    /\ resp.before[1] = 2
    /\ \E p \in products :
           /\ p.id = 1
           /\ p.stock < 0
           /\ p.stock < resp.before[1] - QuantityFor(resp.items, 1)

NewProducts ==
    {[name |-> <<"b", "A">>, sku |-> "S3", price |-> 10, categoryId |-> "cat-2",
      status |-> "inactive", stock |-> 0, minStock |-> 0],
     [name |-> <<"A">>, price |-> 30, malformed |-> {"sku"}]}

ProductPatches == {Rename, [status |-> "inactive"], [malformed |-> {"price"}]}

Searches == {<<>>, <<"a">>, <<"_", "b">>}

(* the parameter objects of getProducts: each filter absent or present, a
   sort key or none, limit and offset given or left to their defaults *)
ProductQueries ==
    {[f \in D |-> q[f]] :
        q \in [search : Searches \ {<<>>}, category : {"cat-1"}, status : {"active"},
               sort : {"price-low", "price-high", "newest"}, limit : 0..2, offset : {1}],
        D \in {F \cup L : F \in SUBSET {"search", "category", "status"},
                          L \in {{}, {"limit"}, {"limit", "offset"}, {"sort", "limit"}}}}
    \cup {[search |-> <<>>, category |-> "", status |-> ""]}

NextCatalog ==
    \/ \E body \in NewProducts : CreateProduct(body)
    \/ \E id \in {1, NoProduct}, body \in ProductPatches : UpdateProduct(id, body)
    \/ \E id \in {2, NoProduct} : DeleteProduct(id)
    \/ \E params \in ProductQueries : GetProducts(params)
    \/ GetProductsPage
    \/ GetProductsCount

SpecCatalog == Init /\ [][NextCatalog]_vars

(* the stored products that pass every filter present in params *)
Matching(params) ==
    LET bySearch == IF Has(params, "search") /\ params.search # <<>>
                    THEN {p \in products : ilike(p.name, <<"%">> \o params.search \o <<"%">>)}
                    ELSE products
        byCategory == IF Has(params, "category") /\ params.category # ""
                      THEN {p \in products : p.categoryId = params.category}
                      ELSE products
        byStatus == IF Has(params, "status") /\ params.status # ""
                    THEN {p \in products : p.status = params.status}
                    ELSE products
    IN bySearch \cap byCategory \cap byStatus

(* the total and the page a query of getProducts has just returned *)
ReturnedTotal == IF rd'.op = "getProducts" THEN rd'.total ELSE resp'.total
ReturnedPage == IF rd'.op = "getProducts" THEN rd'.page ELSE resp'.products

(* C8: for every combination of filters, limit and offset, the total returned
   by getProducts is the number of stored products passing every present
   filter, whatever limit and offset are, and the page holds only such
   products, each once, at most limit of them. *)
TotalCountsFilteredSet ==
    [][/\ GetProductsCount => ReturnedTotal = Cardinality(Matching(rd.params))
       /\ GetProductsPage =>
              /\ \A i \in DOMAIN ReturnedPage : ReturnedPage[i] \in Matching(rd.params)
              /\ \A i, j \in DOMAIN ReturnedPage : i # j => ReturnedPage[i] # ReturnedPage[j]
              /\ Len(ReturnedPage) <= limitOf(rd.params)]_vars

(* a filtered query with limit 1 returned one product and the total 2 *)
TotalBeyondPage ==
    /\ resp.op = "getProducts"
    /\ Has(resp.params, "status") /\ Has(resp.params, "limit")
    /\ resp.params.limit = 1
    /\ Len(resp.products) = 1
    /\ resp.total = 2
    /\ Cardinality(products) = 3

(* C10: a PUT /api/products/:id with a valid body and an id no product has is
   not answered as a success: it is answered 404 and changes no product. *)
UnknownProductNotUpdated ==
    [][\A id \in {1, NoProduct}, body \in ProductPatches :
           (/\ UpdateProduct(id, body)
            /\ ValidProductPatch(body)
            /\ \A p \in products : p.id # id)
               => resp'.status = 404 /\ products' = products]_vars

====
